---- MODULE Spec2Model ----
(***************************************************************************)
(* SqsService of nestjs-sqs (src/lib/sqs.service.ts): the registry that    *)
(* binds discovered message handlers to named SQS consumers and producers, *)
(* starts and stops the consumers with the module lifecycle, and resolves  *)
(* a queue name to a client and queue URL for the control-plane calls.     *)
(*                                                                         *)
(* JavaScript runs each synchronous stretch of a handler to completion, so *)
(* one action is one call of a method.  The order of the calls a method    *)
(* makes on its collaborators (Consumer.create, Map.set, start, stop, the  *)
(* logger) is kept in the history variable `events`; what a control-plane  *)
(* call sent and how it ended is kept in `lastCall`.                        *)
(***************************************************************************)
EXTENDS Integers, Sequences, FiniteSets, TLC

VARIABLES
    options,            \* SQS_OPTIONS: consumers, producers, globalStopOptions
    discovered,         \* what DiscoveryService returns: messageHandlers, eventHandlers
    consumers,          \* this.consumers, a Map in insertion order: <<[key, value]>>
    producers,          \* this.producers, a Map in insertion order
    globalStopOptions,  \* this.globalStopOptions
    pc,                 \* lifecycle: constructed, initialized, initFailed, destroyed
    error,              \* what the last lifecycle hook threw (Undefined: it returned)
    events,             \* history: the calls the lifecycle hooks made, in order
    lastCall            \* the last control-plane call: what it sent, how it ended

vars == <<options, discovered, consumers, producers, globalStopOptions, pc, error, events, lastCall>>

config == <<options, discovered>>
registry == <<consumers, producers, globalStopOptions>>
lifecycle == <<pc, error, events>>

(***************************************************************************)
(* Bounds of the model.                                                    *)
(***************************************************************************)
MaxConsumers == 2   \* consumer declarations in options.consumers
MaxProducers == 2   \* producer declarations in options.producers
MaxBatch == 2       \* messages in one send / deleteMessageBatch call
MaxHandlers == 2    \* message-handler bindings the discovery returns, in the wiring family
MaxDeliveries == 2  \* deliveries of received messages to a callback in one run

QueueNames == {"A", "B"}

SeqsUpTo(S, n) == UNION {[1..k -> S] : k \in 0..n}

(***************************************************************************)
(* JavaScript values.  undefined and {} are records, as is every value     *)
(* that is compared with them.                                             *)
(***************************************************************************)
Undefined == [type |-> "undefined"]
EmptyObject == [type |-> "object"]

\* new Error(message)
Error(message) == [type |-> "Error", message |-> message]

\* a ?? b
Coalesce(a, b) == IF a = Undefined THEN b ELSE a

\* fn.bind(thisArg)
Bind(fn, thisArg) == [type |-> "bound", fn |-> fn, this |-> thisArg]

(***************************************************************************)
(* Map<QueueName, V>: has, get, set, values(); iteration is in insertion   *)
(* order and set on a present key keeps the key's place.                   *)
(***************************************************************************)
MapHas(map, key) == \E i \in 1..Len(map) : map[i].key = key

MapIndex(map, key) == CHOOSE i \in 1..Len(map) : map[i].key = key

MapGet(map, key) == IF MapHas(map, key) THEN map[MapIndex(map, key)].value ELSE Undefined

MapSet(map, key, value) ==
    IF MapHas(map, key)
    THEN [map EXCEPT ![MapIndex(map, key)].value = value]
    ELSE Append(map, [key |-> key, value |-> value])

MapKeys(map) == {map[i].key : i \in 1..Len(map)}

(***************************************************************************)
(* The collaborators: what the factories of sqs-consumer and sqs-producer  *)
(* return, as far as SqsService reads or calls it.                         *)
(***************************************************************************)
\* Consumer.create({...consumerOptions, handleMessage | handleMessageBatch})
ConsumerCreate(consumerOptions, callbacks) ==
    [type |-> "Consumer",
     sqs |-> consumerOptions.sqs,
     queueUrl |-> consumerOptions.queueUrl,
     handleMessage |-> callbacks.handleMessage,
     handleMessageBatch |-> callbacks.handleMessageBatch,
     listeners |-> <<>>,
     starts |-> 0,
     stops |-> 0]

\* Producer.create(producerOptions)
ProducerCreate(producerOptions) ==
    [type |-> "Producer",
     sqs |-> producerOptions.sqs,
     queueUrl |-> producerOptions.queueUrl]

\* consumer.addListener(eventName, callback)
AddListener(consumer, eventName, callback) ==
    [consumer EXCEPT !.listeners = Append(@, [eventName |-> eventName, callback |-> callback])]

Event(type, name) == [type |-> type, name |-> name]

(***************************************************************************)
(* onModuleInit, lines 47-81: the callback of options.consumers.forEach.   *)
(* st is the loop's state: the consumer map, the history, and what was     *)
(* thrown (Undefined while nothing was).                                   *)
(***************************************************************************)
\* Variant: the last binding of the name in discovery order is taken
FindMetadataLast(messageHandlers, name) ==
    IF \E i \in 1..Len(messageHandlers) : messageHandlers[i].meta.name = name
    THEN messageHandlers[CHOOSE i \in 1..Len(messageHandlers) :
                            /\ messageHandlers[i].meta.name = name
                            /\ \A j \in (i + 1)..Len(messageHandlers) : messageHandlers[j].meta.name # name]
    ELSE Undefined

\* messageHandlers.find(({ meta }) => meta.name === name)
FindMetadata(messageHandlers, name) ==
    IF \E i \in 1..Len(messageHandlers) : messageHandlers[i].meta.name = name
    THEN messageHandlers[CHOOSE i \in 1..Len(messageHandlers) :
                            /\ messageHandlers[i].meta.name = name
                            /\ \A j \in 1..(i - 1) : messageHandlers[j].meta.name # name]
    ELSE Undefined

\* Variant: every discovered event handler is attached, whatever its queue name
FilterEventsUnfiltered(eventHandlers, name) == eventHandlers

\* eventHandlers.filter(({ meta }) => meta.name === name)
FilterEvents(eventHandlers, name) == SelectSeq(eventHandlers, LAMBDA e : e.meta.name = name)

\* Variant: both callback kinds are handed to Consumer.create whatever the flag says
MessageCallbacksBothKinds(metadata) ==
    LET bound == Bind(metadata.handler, metadata.instance)
    IN  [handleMessage |-> bound, handleMessageBatch |-> bound]

\* The handler option handed to Consumer.create
MessageCallbacks(metadata) ==
    LET bound == Bind(metadata.handler, metadata.instance)
    IN  IF metadata.meta.batch = TRUE
        THEN [handleMessage |-> Undefined, handleMessageBatch |-> bound]
        ELSE [handleMessage |-> bound, handleMessageBatch |-> Undefined]

\* for (const eventMetadata of eventsMetadata) consumer.addListener(...)
RECURSIVE AttachListeners(_, _, _, _)
AttachListeners(st, eventsMetadata, metadata, i) ==
    IF i > Len(eventsMetadata)
    THEN st
    ELSE LET em == eventsMetadata[i]
             callback == Bind(em.handler, metadata.instance)
         IN  AttachListeners(
                 [consumer |-> AddListener(st.consumer, em.meta.eventName, callback),
                  events |-> Append(st.events, [type |-> "addListener", name |-> metadata.meta.name,
                                                eventName |-> em.meta.eventName])],
                 eventsMetadata, metadata, i + 1)

\* Variant: the process-wide default is stored whatever the declaration says
ConsumerEntryDefaultOnly(instance, stopOptions, globalStop) ==
    [instance |-> instance, stopOptions |-> globalStop]

\* this.consumers.set(name, { instance, stopOptions: stopOptions ?? this.globalStopOptions })
ConsumerEntry(instance, stopOptions, globalStop) ==
    [instance |-> instance, stopOptions |-> Coalesce(stopOptions, globalStop)]

\* Variant: the name is not looked up in the map first, so a second declaration replaces the entry
RegisterConsumerNoDuplicateCheck(st, opts, globalStop) ==
    LET metadata == FindMetadata(discovered.messageHandlers, opts.name)
    IN  IF metadata = Undefined
        THEN [st EXCEPT !.events = Append(@, Event("warn", opts.name))]
        ELSE LET created == ConsumerCreate(opts, MessageCallbacks(metadata))
                 wired == AttachListeners(
                              [consumer |-> created,
                               events |-> Append(st.events, Event("Consumer.create", opts.name))],
                              FilterEvents(discovered.eventHandlers, opts.name), metadata, 1)
             IN  [st EXCEPT
                     !.consumers = MapSet(@, opts.name,
                                          ConsumerEntry(wired.consumer, opts.stopOptions, globalStop)),
                     !.events = Append(wired.events, Event("consumers.set", opts.name))]

\* Variant: a declaration without a discovered handler is an error instead of a warning
RegisterConsumerMissingHandlerThrows(st, opts, globalStop) ==
    IF MapHas(st.consumers, opts.name)
    THEN [st EXCEPT !.error = Error("Consumer already exists: " \o opts.name),
                    !.events = Append(@, Event("throw", opts.name))]
    ELSE LET metadata == FindMetadata(discovered.messageHandlers, opts.name)
         IN  IF metadata = Undefined
             THEN [st EXCEPT !.error = Error("No metadata found for: " \o opts.name),
                             !.events = Append(@, Event("throw", opts.name))]
             ELSE LET created == ConsumerCreate(opts, MessageCallbacks(metadata))
                      wired == AttachListeners(
                                   [consumer |-> created,
                                    events |-> Append(st.events, Event("Consumer.create", opts.name))],
                                   FilterEvents(discovered.eventHandlers, opts.name), metadata, 1)
                  IN  [st EXCEPT
                          !.consumers = MapSet(@, opts.name,
                                               ConsumerEntry(wired.consumer, opts.stopOptions, globalStop)),
                          !.events = Append(wired.events, Event("consumers.set", opts.name))]

RegisterConsumer(st, opts, globalStop) ==
    IF MapHas(st.consumers, opts.name)
    THEN [st EXCEPT !.error = Error("Consumer already exists: " \o opts.name),
                    !.events = Append(@, Event("throw", opts.name))]
    ELSE LET metadata == FindMetadata(discovered.messageHandlers, opts.name)
         IN  IF metadata = Undefined
             THEN [st EXCEPT !.events = Append(@, Event("warn", opts.name))]
             ELSE LET created == ConsumerCreate(opts, MessageCallbacks(metadata))
                      wired == AttachListeners(
                                   [consumer |-> created,
                                    events |-> Append(st.events, Event("Consumer.create", opts.name))],
                                   FilterEvents(discovered.eventHandlers, opts.name), metadata, 1)
                  IN  [st EXCEPT
                          !.consumers = MapSet(@, opts.name,
                                               ConsumerEntry(wired.consumer, opts.stopOptions, globalStop)),
                          !.events = Append(wired.events, Event("consumers.set", opts.name))]

\* this.options.consumers?.forEach(...): a throw ends the loop
RECURSIVE ForEachConsumer(_, _, _)
ForEachConsumer(st, i, globalStop) ==
    IF i > Len(options.consumers) \/ st.error # Undefined
    THEN st
    ELSE ForEachConsumer(RegisterConsumer(st, options.consumers[i], globalStop), i + 1, globalStop)

(***************************************************************************)
(* onModuleInit, lines 83-91: the callback of options.producers.forEach.   *)
(***************************************************************************)
\* Variant: one namespace for both roles, a producer may not take a consumer's name
RegisterProducerSharedNamespace(st, opts) ==
    IF MapHas(st.producers, opts.name) \/ MapHas(st.consumers, opts.name)
    THEN [st EXCEPT !.error = Error("Producer already exists: " \o opts.name),
                    !.events = Append(@, Event("throw", opts.name))]
    ELSE [st EXCEPT !.producers = MapSet(@, opts.name, ProducerCreate(opts)),
                    !.events = @ \o <<Event("Producer.create", opts.name),
                                      Event("producers.set", opts.name)>>]

RegisterProducer(st, opts) ==
    IF MapHas(st.producers, opts.name)
    THEN [st EXCEPT !.error = Error("Producer already exists: " \o opts.name),
                    !.events = Append(@, Event("throw", opts.name))]
    ELSE [st EXCEPT !.producers = MapSet(@, opts.name, ProducerCreate(opts)),
                    !.events = @ \o <<Event("Producer.create", opts.name),
                                      Event("producers.set", opts.name)>>]

RECURSIVE ForEachProducer(_, _)
ForEachProducer(st, i) ==
    IF i > Len(options.producers) \/ st.error # Undefined
    THEN st
    ELSE ForEachProducer(RegisterProducer(st, options.producers[i]), i + 1)

(***************************************************************************)
(* onModuleInit, lines 93-95: start every consumer of the map.             *)
(***************************************************************************)
\* Variant: only the first consumer of the map is started
StartFirstConsumerOnly(st, i) ==
    IF Len(st.consumers) = 0
    THEN st
    ELSE [st EXCEPT !.consumers[1].value.instance.starts = @ + 1,
                    !.events = Append(@, Event("start", st.consumers[1].key))]

RECURSIVE StartConsumers(_, _)
StartConsumers(st, i) ==
    IF i > Len(st.consumers)
    THEN st
    ELSE StartConsumers(
             [st EXCEPT !.consumers[i].value.instance.starts = @ + 1,
                        !.events = Append(@, Event("start", st.consumers[i].key))],
             i + 1)

\* Variant: the consumers are started as soon as the consumer loop is done
ModuleInitStartsBeforeProducers(globalStop) ==
    LET st0 == [consumers |-> consumers, producers |-> producers,
                events |-> events, error |-> Undefined]
        st1 == ForEachConsumer(st0, 1, globalStop)
        st2 == IF st1.error # Undefined THEN st1 ELSE StartConsumers(st1, 1)
    IN  IF st2.error # Undefined THEN st2 ELSE ForEachProducer(st2, 1)

\* Variant: the consumers stored so far are started although a loop threw
ModuleInitStartsDespiteError(globalStop) ==
    LET st0 == [consumers |-> consumers, producers |-> producers,
                events |-> events, error |-> Undefined]
        st1 == ForEachConsumer(st0, 1, globalStop)
        st2 == IF st1.error # Undefined THEN st1 ELSE ForEachProducer(st1, 1)
    IN  StartConsumers(st2, 1)

\* The whole of onModuleInit after the two awaits of the discovery
ModuleInit(globalStop) ==
    LET st0 == [consumers |-> consumers, producers |-> producers,
                events |-> events, error |-> Undefined]
        st1 == ForEachConsumer(st0, 1, globalStop)
        st2 == IF st1.error # Undefined THEN st1 ELSE ForEachProducer(st1, 1)
    IN  IF st2.error # Undefined THEN st2 ELSE StartConsumers(st2, 1)

OnModuleInit ==
    /\ pc = "constructed"
    /\ LET globalStop == Coalesce(options.globalStopOptions, EmptyObject)
           st == ModuleInit(globalStop)
       IN  /\ globalStopOptions' = globalStop
           /\ consumers' = st.consumers
           /\ producers' = st.producers
           /\ events' = st.events
           /\ error' = st.error
           /\ pc' = IF st.error = Undefined THEN "initialized" ELSE "initFailed"
    /\ UNCHANGED <<config, lastCall>>

(***************************************************************************)
(* onModuleDestroy, lines 98-102.  stop() belongs to sqs-consumer and may  *)
(* throw (it emits events to listeners); `throwing` is the set of queue    *)
(* names whose consumer's stop throws.  Nothing catches, so the first      *)
(* throw ends the loop and leaves onModuleDestroy.                         *)
(***************************************************************************)
RECURSIVE StopConsumers(_, _, _)
StopConsumers(st, i, throwing) ==
    IF i > Len(st.consumers) \/ st.error # Undefined
    THEN st
    ELSE LET entry == st.consumers[i]
         IN  StopConsumers(
                 [st EXCEPT !.consumers[i].value.instance.stops = @ + 1,
                            !.events = Append(@, [type |-> "stop", name |-> entry.key,
                                                  stopOptions |-> entry.value.stopOptions]),
                            !.error = IF entry.key \in throwing
                                      THEN Error("stop failed: " \o entry.key)
                                      ELSE Undefined],
                 i + 1, throwing)

OnModuleDestroy(throwing) ==
    /\ pc \in {"initialized", "initFailed"}
    /\ LET st == StopConsumers([consumers |-> consumers, events |-> events, error |-> Undefined],
                               1, throwing)
       IN  /\ consumers' = st.consumers
           /\ events' = st.events
           /\ error' = st.error
    /\ pc' = "destroyed"
    /\ UNCHANGED <<config, producers, globalStopOptions, lastCall>>

(***************************************************************************)
(* The poller at work.  A started consumer that has not been asked to stop *)
(* hands what it receives to the callback it was created with (lines       *)
(* 60-69): handleMessageBatch when it was given one, handleMessage         *)
(* otherwise.  The history records the callback that ran.                  *)
(***************************************************************************)
Deliver(name) ==
    /\ pc = "initialized"
    /\ MapHas(consumers, name)
    /\ Cardinality({i \in 1..Len(events) : events[i].type = "invoke"}) < MaxDeliveries
    /\ LET instance == MapGet(consumers, name).instance
       IN  /\ instance.starts > 0
           /\ instance.stops = 0
           /\ events' = Append(events,
                               IF instance.handleMessageBatch # Undefined
                               THEN [type |-> "invoke", name |-> name, kind |-> "handleMessageBatch",
                                     callback |-> instance.handleMessageBatch]
                               ELSE [type |-> "invoke", name |-> name, kind |-> "handleMessage",
                                     callback |-> instance.handleMessage])
    /\ UNCHANGED <<config, registry, pc, error, lastCall>>

(***************************************************************************)
(* Control-plane calls.  A call either returns a result or throws; the     *)
(* commands it handed to an SQS client or to a producer before that are    *)
(* recorded with it.  `response` is what the backend answers: an output or *)
(* an error, which client.send rejects with.                               *)
(***************************************************************************)
NoCall == [op |-> "none"]

\* How a call ended: what it returned or threw, and the commands it had issued
Returned(commands, result) ==
    [outcome |-> "returned", commands |-> commands, result |-> result, error |-> Undefined]

Threw(commands, err) ==
    [outcome |-> "threw", commands |-> commands, result |-> Undefined, error |-> err]

BackendOutput == [type |-> "output", Attributes |-> [type |-> "attributes", of |-> "All"]]
BackendError == Error("backend rejected the command")
Responses == {BackendOutput, BackendError}

Command(client, command, input) == [client |-> client, command |-> command, input |-> input]

\* await client.send(command): the result, or the rejection, reaches the caller
AwaitSend(command, response) ==
    IF response.type = "Error"
    THEN Threw(<<command>>, response)
    ELSE Returned(<<command>>, response)

\* Variant: only the consumer map is looked up
GetQueueInfoConsumersOnly(name) ==
    IF ~MapHas(consumers, name)
    THEN Error("Consumer/Producer does not exist: " \o name)
    ELSE LET target == MapGet(consumers, name).instance
         IN  IF target.sqs = Undefined
             THEN Error("SQS instance does not exist")
             ELSE [type |-> "QueueInfo", sqs |-> target.sqs, queueUrl |-> target.queueUrl]

\* Variant: the producer map is looked up first
GetQueueInfoProducerFirst(name) ==
    IF ~MapHas(consumers, name) /\ ~MapHas(producers, name)
    THEN Error("Consumer/Producer does not exist: " \o name)
    ELSE LET producer == MapGet(producers, name)
             target == IF producer # Undefined THEN producer ELSE MapGet(consumers, name).instance
         IN  IF target.sqs = Undefined
             THEN Error("SQS instance does not exist")
             ELSE [type |-> "QueueInfo", sqs |-> target.sqs, queueUrl |-> target.queueUrl]

\* getQueueInfo, lines 104-121: the value returned, or the error thrown
GetQueueInfo(name) ==
    IF ~MapHas(consumers, name) /\ ~MapHas(producers, name)
    THEN Error("Consumer/Producer does not exist: " \o name)
    ELSE LET consumer == MapGet(consumers, name)
             target == IF consumer # Undefined THEN consumer.instance ELSE MapGet(producers, name)
         IN  IF target.sqs = Undefined
             THEN Error("SQS instance does not exist")
             ELSE [type |-> "QueueInfo", sqs |-> target.sqs, queueUrl |-> target.queueUrl]

\* Variant: the producer map is asked first
ConsumerOrProducerPrefersProducer(name) ==
    LET producer == MapGet(producers, name)
    IN  IF producer # Undefined THEN producer ELSE MapGet(consumers, name).instance

\* lines 180-183, 199-202, 220-223: this.consumers.get(name)?.instance ?? this.producers.get(name)
ConsumerOrProducer(name) ==
    LET consumer == MapGet(consumers, name)
    IN  IF consumer # Undefined THEN consumer.instance ELSE MapGet(producers, name)

\* Variant: a call that fails drops the name's producer from the producer map
ControlPlaneEvictsOnFailure(op, name, args, end) ==
    /\ lastCall' = [op |-> op, name |-> name, args |-> args, outcome |-> end.outcome,
                    commands |-> end.commands, result |-> end.result, error |-> end.error]
    /\ producers' = IF end.outcome = "threw"
                    THEN SelectSeq(producers, LAMBDA entry : entry.key # name)
                    ELSE producers
    /\ UNCHANGED <<config, consumers, globalStopOptions, lifecycle>>

\* A control-plane call: recorded with its arguments; the service's state is not written
ControlPlane(op, name, args, end) ==
    /\ lastCall' = [op |-> op, name |-> name, args |-> args, outcome |-> end.outcome,
                    commands |-> end.commands, result |-> end.result, error |-> end.error]
    /\ UNCHANGED <<config, registry, lifecycle>>

\* purgeQueue, lines 123-129
PurgeQueueCall(name, response) ==
    LET info == GetQueueInfo(name)
    IN  IF info.type = "Error"
        THEN Threw(<<>>, info)
        ELSE AwaitSend(Command(info.sqs, "PurgeQueueCommand", [QueueUrl |-> info.queueUrl]),
                       response)

PurgeQueue(name, response) ==
    ControlPlane("purgeQueue", name, EmptyObject, PurgeQueueCall(name, response))

\* getQueueAttributes, lines 131-139
GetQueueAttributesCall(name, response) ==
    LET info == GetQueueInfo(name)
        sent == AwaitSend(Command(info.sqs, "GetQueueAttributesCommand",
                                  [QueueUrl |-> info.queueUrl, AttributeNames |-> <<"All">>]),
                          response)
    IN  IF info.type = "Error"
        THEN Threw(<<>>, info)
        ELSE IF sent.outcome = "threw"
             THEN sent
             ELSE [sent EXCEPT !.result = response.Attributes]

GetQueueAttributes(name, response) ==
    ControlPlane("getQueueAttributes", name, EmptyObject, GetQueueAttributesCall(name, response))

\* getProducerQueueSize, lines 141-147
GetProducerQueueSizeCall(name, response) ==
    IF ~MapHas(producers, name)
    THEN Threw(<<>>, Error("Producer does not exist: " \o name))
    ELSE AwaitSend(Command(MapGet(producers, name), "queueSize", EmptyObject), response)

GetProducerQueueSize(name, response) ==
    ControlPlane("getProducerQueueSize", name, EmptyObject, GetProducerQueueSizeCall(name, response))

(***************************************************************************)
(* Message bodies: JavaScript values tagged with their typeof / shape, the  *)
(* value under a field of the type's own.  An object is its members in     *)
(* property order, an array its elements.                                  *)
(* JSON.stringify is modelled on values whose strings need no escaping.    *)
(***************************************************************************)
Str(s) == [type |-> "string", string |-> s]
Num(n) == [type |-> "number", number |-> n]
Bool(b) == [type |-> "boolean", boolean |-> b]
Null == [type |-> "null"]
Arr(elements) == [type |-> "array", elements |-> elements]
Obj(members) == [type |-> "object", members |-> members]
Member(key, value) == [key |-> key, value |-> value]

RECURSIVE JSONStringify(_), JoinElements(_, _), JoinMembers(_, _)
\* JSON.stringify(v)
JSONStringify(v) ==
    CASE v.type = "string" -> "\"" \o v.string \o "\""
      [] v.type = "number" -> ToString(v.number)
      [] v.type = "boolean" -> (IF v.boolean THEN "true" ELSE "false")
      [] v.type = "null" -> "null"
      [] v.type = "array" -> "[" \o JoinElements(v.elements, 1) \o "]"
      [] v.type = "object" -> "{" \o JoinMembers(v.members, 1) \o "}"

JoinElements(elements, i) ==
    IF i > Len(elements)
    THEN ""
    ELSE (IF i > 1 THEN "," ELSE "") \o JSONStringify(elements[i]) \o JoinElements(elements, i + 1)

JoinMembers(members, i) ==
    IF i > Len(members)
    THEN ""
    ELSE (IF i > 1 THEN "," ELSE "") \o "\"" \o members[i].key \o "\":"
         \o JSONStringify(members[i].value) \o JoinMembers(members, i + 1)

(***************************************************************************)
(* send, lines 149-169.  A payload is one message or an array of messages. *)
(***************************************************************************)
One(message) == [isArray |-> FALSE, message |-> message]
Many(messages) == [isArray |-> TRUE, messages |-> messages]

\* Variant: every body goes through JSON.stringify, strings too
SerializeBodyAlways(body) == Str(JSONStringify(body))

\* lines 156-159: typeof body !== 'string' ? JSON.stringify(body) : body
SerializeBody(body) == IF body.type # "string" THEN Str(JSONStringify(body)) ELSE body

\* lines 155-165: the callback of originalMessages.map: { ...message, body }
SerializeMessage(message) == [message EXCEPT !.body = SerializeBody(message.body)]

\* lines 154-165
SerializeMessages(payload) ==
    LET originalMessages == IF payload.isArray THEN payload.messages ELSE <<payload.message>>
    IN  [i \in 1..Len(originalMessages) |-> SerializeMessage(originalMessages[i])]

\* Variant: the name is accepted when either map has it
SendCallAcceptsConsumerName(name, payload, response) ==
    IF ~MapHas(producers, name) /\ ~MapHas(consumers, name)
    THEN Threw(<<>>, Error("Producer does not exist: " \o name))
    ELSE AwaitSend(Command(ConsumerOrProducer(name), "send",
                           [messages |-> SerializeMessages(payload)]),
                   response)

SendCall(name, payload, response) ==
    IF ~MapHas(producers, name)
    THEN Threw(<<>>, Error("Producer does not exist: " \o name))
    ELSE AwaitSend(Command(MapGet(producers, name), "send", [messages |-> SerializeMessages(payload)]),
                   response)

Send(name, payload, response) ==
    ControlPlane("send", name, [payload |-> payload], SendCall(name, payload, response))

(***************************************************************************)
(* changeMessageVisibility, deleteMessage, deleteMessageBatch.             *)
(***************************************************************************)
\* changeMessageVisibility, lines 171-192
ChangeMessageVisibilityCall(name, receiptHandle, visibilityTimeout, response) ==
    IF ~MapHas(consumers, name)
    THEN Threw(<<>>, Error("Consumer does not exist: " \o name))
    ELSE LET target == ConsumerOrProducer(name)
         IN  AwaitSend(Command(target.sqs, "ChangeMessageVisibilityCommand",
                               [QueueUrl |-> target.queueUrl, ReceiptHandle |-> receiptHandle,
                                VisibilityTimeout |-> visibilityTimeout]),
                       response)

ChangeMessageVisibility(name, receiptHandle, visibilityTimeout, response) ==
    ControlPlane("changeMessageVisibility", name,
                 [receiptHandle |-> receiptHandle, visibilityTimeout |-> visibilityTimeout],
                 ChangeMessageVisibilityCall(name, receiptHandle, visibilityTimeout, response))

\* deleteMessage, lines 194-210
DeleteMessageCall(name, receiptHandle, response) ==
    IF ~MapHas(consumers, name)
    THEN Threw(<<>>, Error("Consumer does not exist: " \o name))
    ELSE LET target == ConsumerOrProducer(name)
         IN  AwaitSend(Command(target.sqs, "DeleteMessageCommand",
                               [QueueUrl |-> target.queueUrl, ReceiptHandle |-> receiptHandle]),
                       response)

DeleteMessage(name, receiptHandle, response) ==
    ControlPlane("deleteMessage", name, [receiptHandle |-> receiptHandle],
                 DeleteMessageCall(name, receiptHandle, response))

\* lines 227-232: the Entries of the batch
BatchEntries(messages) ==
    [i \in 1..Len(messages) |->
        [Id |-> messages[i].MessageId, ReceiptHandle |-> messages[i].ReceiptHandle]]

\* Variant: the name is accepted when either map has it
DeleteMessageBatchCallAcceptsProducerName(name, messages, response) ==
    IF ~MapHas(consumers, name) /\ ~MapHas(producers, name)
    THEN Threw(<<>>, Error("Consumer does not exist: " \o name))
    ELSE LET target == ConsumerOrProducer(name)
         IN  AwaitSend(Command(target.sqs, "DeleteMessageBatchCommand",
                               [QueueUrl |-> target.queueUrl, Entries |-> BatchEntries(messages)]),
                       response)

\* deleteMessageBatch, lines 212-236
DeleteMessageBatchCall(name, messages, response) ==
    IF ~MapHas(consumers, name)
    THEN Threw(<<>>, Error("Consumer does not exist: " \o name))
    ELSE LET target == ConsumerOrProducer(name)
         IN  AwaitSend(Command(target.sqs, "DeleteMessageBatchCommand",
                               [QueueUrl |-> target.queueUrl, Entries |-> BatchEntries(messages)]),
                       response)

DeleteMessageBatch(name, messages, response) ==
    ControlPlane("deleteMessageBatch", name, [messages |-> messages],
                 DeleteMessageBatchCall(name, messages, response))

(***************************************************************************)
(* Configurations and inputs.  Every declaration carries its own client    *)
(* and queue URL, so that the instance a command went to can be told from  *)
(* the command.                                                            *)
(***************************************************************************)
SQSClient(id) == [type |-> "SQSClient", id |-> id]

ConsumerOptionsOf(name, stopOptions) ==
    [name |-> name, stopOptions |-> stopOptions,
     queueUrl |-> "https://sqs/consumer-" \o name, sqs |-> SQSClient("consumer-" \o name)]

ProducerOptionsOf(name) ==
    [name |-> name, queueUrl |-> "https://sqs/producer-" \o name, sqs |-> SQSClient("producer-" \o name)]

MessageHandlerOf(name, batch, handler, instance) ==
    [meta |-> [name |-> name, batch |-> batch], handler |-> handler, instance |-> instance]

EventHandlerOf(name, eventName, handler, instance) ==
    [meta |-> [name |-> name, eventName |-> eventName], handler |-> handler, instance |-> instance]

AbortOnStop == [type |-> "object", abort |-> TRUE]

\* The registry's configurations: any declarations of the queue names, in any order
RegistryConsumerOptions ==
    {ConsumerOptionsOf(n, IF n = "A" THEN AbortOnStop ELSE Undefined) : n \in QueueNames}

RegistryProducerOptions == {ProducerOptionsOf(n) : n \in QueueNames}

RegistryMessageHandlers ==
    {MessageHandlerOf(n, n = "B", "handle" \o n, "service" \o n) : n \in QueueNames}

\* What the discovery finds: a handler for none, one or each of the queue names
RegistryDiscoveries ==
    {<<>>}
    \cup {<<h>> : h \in RegistryMessageHandlers}
    \cup {hs \in RegistryMessageHandlers \X RegistryMessageHandlers : hs[1] # hs[2]}

RegistryEventHandlers ==
    <<EventHandlerOf("A", "error", "onError", "listeners"),
      EventHandlerOf("B", "stopped", "onStopped", "serviceB")>>

\* sqs-producer's Message: id and body, and optional fields such as groupId
Messages ==
    {[id |-> "id-1", body |-> Str("already-a-string")],
     [id |-> "id-2", body |-> Str("{\"a\":1}"), groupId |-> "group"],
     [id |-> "id-3", body |-> Obj(<<Member("a", Num(1))>>)],
     [id |-> "id-4", body |-> Obj(<<Member("b", Str("x")), Member("a", Arr(<<Num(1), Bool(TRUE)>>))>>),
      groupId |-> "group", delaySeconds |-> 5],
     [id |-> "id-5", body |-> Num(7)],
     [id |-> "id-6", body |-> Arr(<<Str("x"), Null, Bool(FALSE)>>), delaySeconds |-> 5]}

Payloads == {One(m) : m \in Messages} \cup {Many(ms) : ms \in SeqsUpTo(Messages, MaxBatch)}

SamplePayloads ==
    {One([id |-> "id-1", body |-> Obj(<<Member("a", Num(1))>>)]),
     Many(<<[id |-> "id-1", body |-> Str("already-a-string")],
            [id |-> "id-2", body |-> Num(7), groupId |-> "group", delaySeconds |-> 5]>>)}

ReceiptHandles == {"receipt-1"}
VisibilityTimeouts == {30}
SampleBatches ==
    {<<[MessageId |-> "m1", ReceiptHandle |-> "receipt-1"]>>,
     <<[MessageId |-> "m2", ReceiptHandle |-> "receipt-2"],
       [MessageId |-> "m1", ReceiptHandle |-> "receipt-1"]>>}

(***************************************************************************)
(* The service after its constructor: empty maps, nothing called yet.      *)
(***************************************************************************)
Constructed ==
    /\ consumers = <<>>
    /\ producers = <<>>
    /\ globalStopOptions = Undefined
    /\ pc = "constructed"
    /\ error = Undefined
    /\ events = <<>>
    /\ lastCall = NoCall

Init ==
    /\ options \in [consumers : SeqsUpTo(RegistryConsumerOptions, MaxConsumers),
                    producers : SeqsUpTo(RegistryProducerOptions, MaxProducers),
                    globalStopOptions : {Undefined}]
    /\ discovered \in [messageHandlers : RegistryDiscoveries,
                       eventHandlers : {RegistryEventHandlers}]
    /\ Constructed

Next ==
    \/ OnModuleInit
    \/ \E throwing \in SUBSET MapKeys(consumers) : OnModuleDestroy(throwing)
    \/ \E name \in QueueNames, response \in Responses : PurgeQueue(name, response)
    \/ \E name \in QueueNames, response \in Responses : GetQueueAttributes(name, response)
    \/ \E name \in QueueNames, response \in Responses : GetProducerQueueSize(name, response)
    \/ \E name \in QueueNames, payload \in SamplePayloads, response \in Responses :
          Send(name, payload, response)
    \/ \E name \in QueueNames, receiptHandle \in ReceiptHandles,
          visibilityTimeout \in VisibilityTimeouts, response \in Responses :
          ChangeMessageVisibility(name, receiptHandle, visibilityTimeout, response)
    \/ \E name \in QueueNames, receiptHandle \in ReceiptHandles, response \in Responses :
          DeleteMessage(name, receiptHandle, response)
    \/ \E name \in QueueNames, messages \in SampleBatches, response \in Responses :
          DeleteMessageBatch(name, messages, response)

Spec == Init /\ [][Next]_vars

(***************************************************************************)
(* The send path on its own: one producer, every payload of the bounds.    *)
(***************************************************************************)
InitSend ==
    /\ options \in [consumers : {<<ConsumerOptionsOf("B", Undefined)>>},
                    producers : {<<ProducerOptionsOf("A")>>},
                    globalStopOptions : {Undefined}]
    /\ discovered \in [messageHandlers : {<<MessageHandlerOf("B", FALSE, "handleB", "serviceB")>>},
                       eventHandlers : {<<>>}]
    /\ Constructed

NextSend ==
    \/ OnModuleInit
    \/ \E throwing \in SUBSET MapKeys(consumers) : OnModuleDestroy(throwing)
    \/ \E name \in QueueNames, payload \in Payloads, response \in Responses :
          Send(name, payload, response)

SpecSend == InitSend /\ [][NextSend]_vars

(***************************************************************************)
(* The wiring on its own: declarations with and without a stop policy,     *)
(* with and without a process-wide default, and discoveries that may hold  *)
(* several message handlers of one queue name.                             *)
(***************************************************************************)
DrainOnStop == [type |-> "object", abort |-> FALSE]

WiringConsumerOptions ==
    {ConsumerOptionsOf(n, s) : n \in QueueNames, s \in {Undefined, AbortOnStop}}

WiringMessageHandlers ==
    {MessageHandlerOf("A", FALSE, "handleA", "serviceA"),
     MessageHandlerOf("A", TRUE, "handleABatch", "batchServiceA"),
     MessageHandlerOf("B", TRUE, "handleB", "serviceB")}

WiringEventHandlers ==
    <<EventHandlerOf("A", "error", "onError", "listeners"),
      EventHandlerOf("B", "stopped", "onStopped", "serviceB"),
      EventHandlerOf("A", "message_received", "onReceived", "serviceA")>>

InitWiring ==
    /\ options \in [consumers : SeqsUpTo(WiringConsumerOptions, MaxConsumers),
                    producers : {<<>>},
                    globalStopOptions : {Undefined, DrainOnStop}]
    /\ discovered \in [messageHandlers : SeqsUpTo(WiringMessageHandlers, MaxHandlers),
                       eventHandlers : {WiringEventHandlers}]
    /\ Constructed

NextWiring ==
    \/ OnModuleInit
    \/ \E throwing \in SUBSET MapKeys(consumers) : OnModuleDestroy(throwing)
    \/ \E name \in QueueNames : Deliver(name)

SpecWiring == InitWiring /\ [][NextWiring]_vars

(***************************************************************************)
(* Vocabulary of the properties.                                           *)
(***************************************************************************)
\* onModuleInit has run (and onModuleDestroy has not yet)
InitDone == pc \in {"initialized", "initFailed"}

ConsumerName(k) == options.consumers[k].name
ProducerName(k) == options.producers[k].name

\* The discovery found a message handler of this queue name
Handled(name) ==
    \E i \in 1..Len(discovered.messageHandlers) : discovered.messageHandlers[i].meta.name = name

\* Where the history holds an event of one of these types
Positions(types) == {i \in 1..Len(events) : events[i].type \in types}

\* One event per consumer declaration the loop has finished without throwing
ProcessedDeclarations == SelectSeq(events, LAMBDA e : e.type \in {"consumers.set", "warn"})

DuplicateConsumerDeclarations ==
    \E j, k \in 1..Len(options.consumers) : j < k /\ ConsumerName(j) = ConsumerName(k)

DuplicateProducerDeclarations ==
    \E j, k \in 1..Len(options.producers) : j < k /\ ProducerName(j) = ProducerName(k)

\* Consumer declarations that repeat an earlier declaration's name and have a handler
RejectedDeclarations ==
    {k \in 1..Len(options.consumers) :
        /\ Handled(ConsumerName(k))
        /\ \E j \in 1..(k - 1) : ConsumerName(j) = ConsumerName(k)}

FirstRejected == CHOOSE k \in RejectedDeclarations : \A m \in RejectedDeclarations : k <= m

FirstDuplicateProducer ==
    CHOOSE k \in 1..Len(options.producers) :
        /\ \E j \in 1..(k - 1) : ProducerName(j) = ProducerName(k)
        /\ \A m \in 1..(k - 1) : \A j \in 1..(m - 1) : ProducerName(j) # ProducerName(m)

ConsumerExistsError(name) == Error("Consumer already exists: " \o name)
ProducerExistsError(name) == Error("Producer already exists: " \o name)

(***************************************************************************)
(* C1.  During onModuleInit no consumer is started until every configured  *)
(* consumer and every configured producer has been processed: before each  *)
(* start event lie one consumers.set or warning per consumer declaration   *)
(* and one producers.set per producer declaration, and no creation,        *)
(* listener attachment or map write comes after a start event.             *)
(***************************************************************************)
StartsOnlyAfterRegistryIsBuilt ==
    \A i \in Positions({"start"}) :
        /\ Cardinality({j \in 1..(i - 1) : events[j].type \in {"consumers.set", "warn"}})
              = Len(options.consumers)
        /\ Cardinality({j \in 1..(i - 1) : events[j].type = "producers.set"})
              = Len(options.producers)
        /\ \A j \in Positions({"Consumer.create", "addListener", "consumers.set",
                               "Producer.create", "producers.set", "warn"}) : j < i

\* Two consumers and a producer were registered, and the consumers started
StartedAfterConsumersAndProducers ==
    /\ pc = "initialized"
    /\ Len(consumers) >= 2
    /\ Len(producers) >= 1
    /\ Cardinality(Positions({"start"})) = Len(consumers)

(***************************************************************************)
(* C2.  When onModuleDestroy runs with two or more registered consumers    *)
(* and the stop of an earlier one throws, every later consumer's stop is   *)
(* still called: after onModuleDestroy every registered consumer has been  *)
(* asked to stop.                                                          *)
(***************************************************************************)
StopReachesEveryConsumer ==
    (pc = "destroyed" /\ Len(consumers) >= 2 /\ error # Undefined)
        => \A i \in 1..Len(consumers) : consumers[i].value.instance.stops >= 1

(***************************************************************************)
(* C3.  As claimed: whenever two consumer declarations share a name,       *)
(* onModuleInit fails with the duplicate-consumer error, and no consumer   *)
(* instance has been created when it fails.                                *)
(***************************************************************************)
DuplicateConsumerFailsBeforeAnyCreate ==
    (InitDone /\ DuplicateConsumerDeclarations)
        => /\ pc = "initFailed"
           /\ \E n \in QueueNames : error = ConsumerExistsError(n)
           /\ Positions({"Consumer.create"}) = {}

(***************************************************************************)
(* C3, amended.  onModuleInit fails with the duplicate-consumer error      *)
(* exactly when a consumer declaration repeats an earlier declaration's    *)
(* name and a message handler is discovered for that name.  It fails at    *)
(* the first such declaration: the handled declarations before it (the     *)
(* first one of that name among them) have each been created and stored,   *)
(* nothing is created after it, no producer is created and no consumer is  *)
(* started.  Repeated declarations of a name without a handler are skipped *)
(* and do not fail onModuleInit.                                           *)
(***************************************************************************)
DuplicateConsumerFailsAtRepeatedDeclaration ==
    InitDone =>
        IF RejectedDeclarations # {}
        THEN LET k == FirstRejected
                 earlier == {ConsumerName(j) : j \in {j \in 1..(k - 1) : Handled(ConsumerName(j))}}
             IN  /\ pc = "initFailed"
                 /\ error = ConsumerExistsError(ConsumerName(k))
                 /\ MapKeys(consumers) = earlier
                 /\ Len(consumers) = Cardinality(earlier)
                 /\ {events[i].name : i \in Positions({"Consumer.create"})} = earlier
                 /\ Cardinality(Positions({"Consumer.create"})) = Cardinality(earlier)
                 /\ Positions({"Producer.create", "producers.set", "start"}) = {}
                 /\ producers = <<>>
        ELSE \A n \in QueueNames : error # ConsumerExistsError(n)

\* onModuleInit failed at a repeated declaration, with the first consumer of the name created
FailedAfterFirstConsumerCreated ==
    /\ pc = "initFailed"
    /\ RejectedDeclarations # {}
    /\ \E i \in Positions({"Consumer.create"}) : events[i].name = ConsumerName(FirstRejected)
    /\ MapHas(consumers, ConsumerName(FirstRejected))

(***************************************************************************)
(* C4.  A consumer declaration whose name has no discovered message        *)
(* handler raises no error: a warning is logged for it, no consumer is     *)
(* created, listened to, stored or started under its name, the name is not *)
(* in the consumer map afterwards, and the loop goes on to the next        *)
(* declaration.  onModuleInit succeeds unless a repeated consumer or       *)
(* producer declaration fails it.                                          *)
(***************************************************************************)
MissingHandlerIsSkippedWithWarning ==
    InitDone =>
        /\ \A k \in 1..Len(options.consumers) :
              ~Handled(ConsumerName(k)) =>
                  /\ ~MapHas(consumers, ConsumerName(k))
                  /\ \A i \in Positions({"Consumer.create", "addListener", "consumers.set", "start"}) :
                        events[i].name # ConsumerName(k)
                  /\ error # ConsumerExistsError(ConsumerName(k))
                  /\ IF Len(ProcessedDeclarations) >= k
                     THEN /\ ProcessedDeclarations[k] = Event("warn", ConsumerName(k))
                          /\ k < Len(options.consumers) =>
                                \/ Len(ProcessedDeclarations) > k
                                \/ error = ConsumerExistsError(ConsumerName(k + 1))
                     ELSE /\ pc = "initFailed"
                          /\ \E j \in 1..(k - 1) : error = ConsumerExistsError(ConsumerName(j))
        /\ (RejectedDeclarations = {} /\ ~DuplicateProducerDeclarations) =>
              /\ pc = "initialized"
              /\ error = Undefined
              /\ MapKeys(consumers) =
                    {ConsumerName(k) : k \in {k \in 1..Len(options.consumers) : Handled(ConsumerName(k))}}

\* A declaration without a handler was skipped and the declaration after it was registered
SkippedThenRegisteredNext ==
    /\ pc = "initialized"
    /\ \E k \in 1..(Len(options.consumers) - 1) :
          /\ ~Handled(ConsumerName(k))
          /\ ProcessedDeclarations[k] = Event("warn", ConsumerName(k))
          /\ MapHas(consumers, ConsumerName(k + 1))

(***************************************************************************)
(* C5.  As claimed: two producer declarations of one name make             *)
(* onModuleInit fail, and a configuration without repeated declarations in *)
(* which a name is declared as a consumer and as a producer succeeds and   *)
(* has the name in both maps.                                              *)
(***************************************************************************)
NameInBothRolesIsInBothMaps ==
    InitDone =>
        /\ DuplicateProducerDeclarations => pc = "initFailed"
        /\ \A n \in QueueNames :
              (/\ ~DuplicateConsumerDeclarations
               /\ ~DuplicateProducerDeclarations
               /\ \E k \in 1..Len(options.consumers) : ConsumerName(k) = n
               /\ \E k \in 1..Len(options.producers) : ProducerName(k) = n)
                  => /\ pc = "initialized"
                     /\ MapHas(consumers, n)
                     /\ MapHas(producers, n)

(***************************************************************************)
(* C5, amended.  Two producer declarations of one name make onModuleInit   *)
(* fail (with the duplicate-producer error of the first repeated name,     *)
(* when no consumer declaration failed it before).  A configuration        *)
(* without repeated declarations in which a name is declared as a consumer *)
(* and as a producer succeeds; the name is in the producer map, and it is  *)
(* in the consumer map as well exactly when a message handler is           *)
(* discovered for it.                                                      *)
(***************************************************************************)
HandledNameInBothRolesIsInBothMaps ==
    InitDone =>
        /\ DuplicateProducerDeclarations =>
              /\ pc = "initFailed"
              /\ RejectedDeclarations = {} =>
                    error = ProducerExistsError(ProducerName(FirstDuplicateProducer))
        /\ \A n \in QueueNames :
              (/\ ~DuplicateConsumerDeclarations
               /\ ~DuplicateProducerDeclarations
               /\ \E k \in 1..Len(options.consumers) : ConsumerName(k) = n
               /\ \E k \in 1..Len(options.producers) : ProducerName(k) = n)
                  => /\ pc = "initialized"
                     /\ MapHas(producers, n)
                     /\ MapHas(consumers, n) <=> Handled(n)

\* One name is registered as a consumer and as a producer
RegisteredInBothRoles ==
    /\ pc = "initialized"
    /\ ~DuplicateConsumerDeclarations
    /\ ~DuplicateProducerDeclarations
    /\ \E n \in QueueNames : MapHas(consumers, n) /\ MapHas(producers, n)

(***************************************************************************)
(* Properties of a control-plane call are properties of the step that      *)
(* makes it: the maps are those the call read, lastCall' is what it did.   *)
(***************************************************************************)
\* This step is a call of one of these operations
Calls(ops) == lastCall' # lastCall /\ lastCall'.op \in ops

(***************************************************************************)
(* C6.  changeMessageVisibility, deleteMessage and deleteMessageBatch,     *)
(* called with a name that is in the producer map and not in the consumer  *)
(* map, throw the consumer-not-found error and issue no backend command.   *)
(***************************************************************************)
MessageCallsRejectProducerOnlyName ==
    [][(/\ Calls({"changeMessageVisibility", "deleteMessage", "deleteMessageBatch"})
        /\ MapHas(producers, lastCall'.name)
        /\ ~MapHas(consumers, lastCall'.name))
          => /\ lastCall'.outcome = "threw"
             /\ lastCall'.error = Error("Consumer does not exist: " \o lastCall'.name)
             /\ lastCall'.commands = <<>>]_vars

\* deleteMessageBatch was refused for a name registered as a producer only
BatchDeleteRefusedForProducerOnlyName ==
    /\ pc = "initialized"
    /\ lastCall.op = "deleteMessageBatch"
    /\ lastCall.outcome = "threw"
    /\ MapHas(producers, lastCall.name)
    /\ ~MapHas(consumers, lastCall.name)

(***************************************************************************)
(* C7.  send and getProducerQueueSize, called with a name that is not in   *)
(* the producer map (a name of the consumer map included), throw the       *)
(* producer-not-found error to the caller and call neither the producer    *)
(* nor the backend.                                                        *)
(***************************************************************************)
ProducerCallsRejectUnknownName ==
    [][(/\ Calls({"send", "getProducerQueueSize"})
        /\ ~MapHas(producers, lastCall'.name))
          => /\ lastCall'.outcome = "threw"
             /\ lastCall'.error = Error("Producer does not exist: " \o lastCall'.name)
             /\ lastCall'.commands = <<>>]_vars

\* send was refused for a name registered as a consumer only
SendRefusedForConsumerOnlyName ==
    /\ pc = "initialized"
    /\ lastCall.op = "send"
    /\ lastCall.outcome = "threw"
    /\ MapHas(consumers, lastCall.name)
    /\ ~MapHas(producers, lastCall.name)

(***************************************************************************)
(* C8.  purgeQueue and getQueueAttributes resolve a name that is in the    *)
(* consumer map, the producer map or both: they issue their one command,   *)
(* and end as the backend answers.  For a name in neither map they throw   *)
(* the not-found error and issue no command.  This holds of every call, at *)
(* any point of the lifecycle.                                             *)
(***************************************************************************)
AdminCallsResolveEitherRole ==
    [][Calls({"purgeQueue", "getQueueAttributes"}) =>
          IF MapHas(consumers, lastCall'.name) \/ MapHas(producers, lastCall'.name)
          THEN /\ Len(lastCall'.commands) = 1
               /\ lastCall'.commands[1].command =
                     (IF lastCall'.op = "purgeQueue" THEN "PurgeQueueCommand"
                                                     ELSE "GetQueueAttributesCommand")
               /\ \/ lastCall'.outcome = "returned"
                  \/ lastCall'.outcome = "threw" /\ lastCall'.error = BackendError
          ELSE /\ lastCall'.outcome = "threw"
               /\ lastCall'.error = Error("Consumer/Producer does not exist: " \o lastCall'.name)
               /\ lastCall'.commands = <<>>]_vars

\* getQueueAttributes returned for a name registered as a producer only, seen after shutdown
AttributesReadForProducerOnlyName ==
    /\ pc = "destroyed"
    /\ lastCall.op = "getQueueAttributes"
    /\ lastCall.outcome = "returned"
    /\ MapHas(producers, lastCall.name)
    /\ ~MapHas(consumers, lastCall.name)

(***************************************************************************)
(* C9.  Resolution order: a command of purgeQueue or getQueueAttributes    *)
(* goes to the client and queue URL of the name's consumer when the name   *)
(* has a consumer entry, also when it has a producer entry with another    *)
(* client; it goes to the producer's only when there is no consumer entry. *)
(***************************************************************************)
AdminCallsPreferConsumer ==
    [][(/\ Calls({"purgeQueue", "getQueueAttributes"})
        /\ lastCall'.commands # <<>>
        /\ MapHas(consumers, lastCall'.name) \/ MapHas(producers, lastCall'.name))
          => LET target == IF MapHas(consumers, lastCall'.name)
                           THEN MapGet(consumers, lastCall'.name).instance
                           ELSE MapGet(producers, lastCall'.name)
             IN  /\ lastCall'.commands[1].client = target.sqs
                 /\ lastCall'.commands[1].input.QueueUrl = target.queueUrl]_vars

\* purgeQueue went to the consumer's client for a name that also has a producer with another client
PurgeSentToConsumerOfSharedName ==
    /\ lastCall.op = "purgeQueue"
    /\ lastCall.commands # <<>>
    /\ MapHas(consumers, lastCall.name)
    /\ MapHas(producers, lastCall.name)
    /\ MapGet(consumers, lastCall.name).instance.sqs # MapGet(producers, lastCall.name).sqs
    /\ lastCall.commands[1].client = MapGet(consumers, lastCall.name).instance.sqs

(***************************************************************************)
(* C10.  send on a registered producer makes exactly one producer send,    *)
(* with one message per input message in the input order (one message is a *)
(* sequence of one).  A string body is dispatched unchanged, any other     *)
(* body as its JSON text, and every other field of a message is dispatched *)
(* unchanged.  The JSON texts are written out for the bodies of the model. *)
(***************************************************************************)
ExpectedBody(body) ==
    CASE body = Str("already-a-string") -> Str("already-a-string")
      [] body = Str("{\"a\":1}") -> Str("{\"a\":1}")
      [] body = Obj(<<Member("a", Num(1))>>) -> Str("{\"a\":1}")
      [] body = Obj(<<Member("b", Str("x")), Member("a", Arr(<<Num(1), Bool(TRUE)>>))>>)
            -> Str("{\"b\":\"x\",\"a\":[1,true]}")
      [] body = Num(7) -> Str("7")
      [] body = Arr(<<Str("x"), Null, Bool(FALSE)>>) -> Str("[\"x\",null,false]")

SendSerializesBodiesOnly ==
    [][(Calls({"send"}) /\ MapHas(producers, lastCall'.name)) =>
          LET payload == lastCall'.args.payload
              input == IF payload.isArray THEN payload.messages ELSE <<payload.message>>
          IN  /\ Len(lastCall'.commands) = 1
              /\ lastCall'.commands[1].command = "send"
              /\ lastCall'.commands[1].client = MapGet(producers, lastCall'.name)
              /\ LET output == lastCall'.commands[1].input.messages
                 IN  /\ Len(output) = Len(input)
                     /\ \A i \in 1..Len(input) :
                           /\ DOMAIN output[i] = DOMAIN input[i]
                           /\ output[i].body = ExpectedBody(input[i].body)
                           /\ input[i].body.type = "string" => output[i].body = input[i].body
                           /\ \A f \in DOMAIN input[i] \ {"body"} : output[i][f] = input[i][f]]_vars

\* An array of a string-bodied and an object-bodied message with further fields was dispatched
SentStringAndObjectBodies ==
    /\ lastCall.op = "send"
    /\ lastCall.outcome = "returned"
    /\ lastCall.args.payload.isArray
    /\ Len(lastCall.args.payload.messages) = 2
    /\ lastCall.args.payload.messages[1].body = Str("already-a-string")
    /\ lastCall.args.payload.messages[2].body.type = "object"
    /\ "groupId" \in DOMAIN lastCall.args.payload.messages[2]
    /\ lastCall.commands[1].input.messages[2].body.type = "string"

(***************************************************************************)
(* Vocabulary of the wiring properties.                                    *)
(***************************************************************************)
\* Where the discovery holds a message-handler binding of this queue name
BindingsOf(name) ==
    {j \in 1..Len(discovered.messageHandlers) : discovered.messageHandlers[j].meta.name = name}

\* The earliest of them in discovery order
FirstBindingOf(name) ==
    discovered.messageHandlers[CHOOSE j \in BindingsOf(name) : \A k \in BindingsOf(name) : j <= k]

(***************************************************************************)
(* C11.  Every consumer of the consumer map has exactly one message        *)
(* callback: the batch callback (handleMessageBatch) when the binding      *)
(* matched to its name is flagged batch, the single-message callback       *)
(* (handleMessage) otherwise; never both and never neither.                *)
(***************************************************************************)
ExactlyOneMessageCallback ==
    \A i \in 1..Len(consumers) :
        LET instance == consumers[i].value.instance
        IN  /\ BindingsOf(consumers[i].key) # {}
            /\ (instance.handleMessage = Undefined) # (instance.handleMessageBatch = Undefined)
            /\ (instance.handleMessageBatch # Undefined)
                  <=> (FirstBindingOf(consumers[i].key).meta.batch = TRUE)

\* A consumer with the single-message callback and one with the batch callback are registered
SingleAndBatchConsumersRegistered ==
    /\ pc = "initialized"
    /\ \E i, j \in 1..Len(consumers) :
          /\ FirstBindingOf(consumers[i].key).meta.batch = FALSE
          /\ consumers[i].value.instance.handleMessage # Undefined
          /\ consumers[i].value.instance.handleMessageBatch = Undefined
          /\ FirstBindingOf(consumers[j].key).meta.batch = TRUE
          /\ consumers[j].value.instance.handleMessageBatch # Undefined
          /\ consumers[j].value.instance.handleMessage = Undefined

\* The start requests of the history that went to the consumer of this name
StartsOf(name) == {p \in Positions({"start"}) : events[p].name = name}

(***************************************************************************)
(* C12.  After a successful onModuleInit the consumers that were started   *)
(* are exactly the entries of the consumer map, each started exactly once: *)
(* no start went to a name outside the map, so none to a declaration that  *)
(* was skipped for lack of a handler and none to a producer.               *)
(***************************************************************************)
StartedConsumersAreTheRegistered ==
    pc = "initialized" =>
        /\ \A i \in 1..Len(consumers) :
              /\ consumers[i].value.instance.starts = 1
              /\ Cardinality(StartsOf(consumers[i].key)) = 1
        /\ \A p \in Positions({"start"}) : MapHas(consumers, events[p].name)
        /\ Cardinality(Positions({"start"})) = Len(consumers)
        /\ \A k \in 1..Len(options.consumers) :
              ~Handled(ConsumerName(k)) => StartsOf(ConsumerName(k)) = {}
        /\ \A k \in 1..Len(options.producers) :
              ~MapHas(consumers, ProducerName(k)) => StartsOf(ProducerName(k)) = {}

\* One consumer was started beside a skipped declaration and a producer of another name
StartedBesideSkippedAndProducer ==
    /\ pc = "initialized"
    /\ Len(consumers) = 1
    /\ consumers[1].value.instance.starts = 1
    /\ \E k \in 1..Len(options.consumers) : ~Handled(ConsumerName(k))
    /\ \E k \in 1..Len(options.producers) : ~MapHas(consumers, ProducerName(k))

(***************************************************************************)
(* C13.  Every consumer entry is stopped exactly once and only at          *)
(* shutdown: no entry ever has more than one stop request, none has one    *)
(* before onModuleDestroy has run, and once onModuleDestroy has run every  *)
(* entry has exactly one.                                                  *)
(***************************************************************************)
StoppedExactlyOnceAtShutdown ==
    \A i \in 1..Len(consumers) :
        LET stops == consumers[i].value.instance.stops
        IN  /\ stops <= 1
            /\ pc # "destroyed" => stops = 0
            /\ pc = "destroyed" => stops = 1

\* The declaration a consumer entry was made from: the first one of its name
DeclarationOf(name) ==
    options.consumers[CHOOSE k \in 1..Len(options.consumers) :
                         /\ ConsumerName(k) = name
                         /\ \A m \in 1..(k - 1) : ConsumerName(m) # name]

(***************************************************************************)
(* C14.  The stop policy stored with a consumer is the stopOptions of its  *)
(* declaration when the declaration has them, otherwise the process-wide   *)
(* globalStopOptions, and the empty object when neither is configured; and *)
(* every stop request of onModuleDestroy carries the policy stored in the  *)
(* entry of the consumer it goes to.                                       *)
(***************************************************************************)
StopPolicyIsConfiguredOrDefault ==
    /\ \A i \in 1..Len(consumers) :
          LET declared == DeclarationOf(consumers[i].key).stopOptions
          IN  consumers[i].value.stopOptions =
                 IF declared # Undefined THEN declared
                 ELSE IF options.globalStopOptions # Undefined THEN options.globalStopOptions
                 ELSE EmptyObject
    /\ \A p \in Positions({"stop"}) :
          events[p].stopOptions = MapGet(consumers, events[p].name).stopOptions

\* Shutdown stopped one consumer with its declared policy and another with the configured default
StoppedWithDeclaredAndDefaultPolicies ==
    /\ pc = "destroyed"
    /\ options.globalStopOptions = DrainOnStop
    /\ \E p, q \in Positions({"stop"}) :
          /\ DeclarationOf(events[p].name).stopOptions = AbortOnStop
          /\ events[p].stopOptions = AbortOnStop
          /\ DeclarationOf(events[q].name).stopOptions = Undefined
          /\ events[q].stopOptions = DrainOnStop

\* Where the discovery holds an event-handler binding of this queue name
EventBindingsOf(name) ==
    {j \in 1..Len(discovered.eventHandlers) : discovered.eventHandlers[j].meta.name = name}

\* This listener of a consumer was made from that event-handler binding
ListenerOf(listener, binding) ==
    /\ listener.eventName = binding.meta.eventName
    /\ listener.callback.fn = binding.handler

(***************************************************************************)
(* C15.  For every consumer that was created, each discovered              *)
(* event-handler binding of the consumer's queue name is attached to it    *)
(* under the binding's event name, and nothing else is attached: no        *)
(* binding of another queue name, and no binding twice.                    *)
(***************************************************************************)
ListenersAreTheBindingsOfTheQueue ==
    \A i \in 1..Len(consumers) :
        LET listeners == consumers[i].value.instance.listeners
            bindings == EventBindingsOf(consumers[i].key)
        IN  /\ \A j \in bindings : \E l \in 1..Len(listeners) :
                  ListenerOf(listeners[l], discovered.eventHandlers[j])
            /\ \A l \in 1..Len(listeners) : \E j \in bindings :
                  ListenerOf(listeners[l], discovered.eventHandlers[j])
            /\ Len(listeners) = Cardinality(bindings)

\* Two consumers are registered: one got both bindings of its queue, the other its single one
ListenersAttachedToTwoConsumers ==
    /\ pc = "initialized"
    /\ \E i, j \in 1..Len(consumers) :
          /\ Cardinality(EventBindingsOf(consumers[i].key)) = 2
          /\ Len(consumers[i].value.instance.listeners) = 2
          /\ Cardinality(EventBindingsOf(consumers[j].key)) = 1
          /\ Len(consumers[j].value.instance.listeners) = 1

ControlPlaneOperations ==
    {"purgeQueue", "getQueueAttributes", "getProducerQueueSize", "send",
     "changeMessageVisibility", "deleteMessage", "deleteMessageBatch"}

\* What a map holds, apart from the start and stop requests its consumers have received
Written(map) ==
    [i \in 1..Len(map) |->
        IF "instance" \in DOMAIN map[i].value
        THEN [map[i] EXCEPT !.value.instance.starts = 0, !.value.instance.stops = 0]
        ELSE map[i]]

(***************************************************************************)
(* C16.  The consumer map and the producer map are written by onModuleInit *)
(* only.  Every control-plane call, whether it returns or throws, leaves   *)
(* both maps exactly as they were, and a step that changes what a map      *)
(* holds is the step of onModuleInit.                                      *)
(***************************************************************************)
MapsWrittenOnlyByModuleInit ==
    [][/\ Calls(ControlPlaneOperations) => (consumers' = consumers /\ producers' = producers)
       /\ (Written(consumers') # Written(consumers) \/ Written(producers') # Written(producers))
             => (pc = "constructed" /\ pc' \in {"initialized", "initFailed"})]_vars

\* A call was rejected by the backend while consumers and producers were registered
CallFailedWithBothMapsFilled ==
    /\ pc = "initialized"
    /\ lastCall.op \in ControlPlaneOperations
    /\ lastCall.outcome = "threw"
    /\ lastCall.commands # <<>>
    /\ Len(consumers) >= 1
    /\ MapHas(producers, lastCall.name)

(***************************************************************************)
(* C17.  Every backend command that changeMessageVisibility, deleteMessage *)
(* or deleteMessageBatch issues goes to the client and the queue URL of    *)
(* the consumer entry of the name, also when the name has a producer entry *)
(* with another client and URL; without a consumer entry they issue none.  *)
(***************************************************************************)
MessageCallsUseTheConsumerEntry ==
    [][(/\ Calls({"changeMessageVisibility", "deleteMessage", "deleteMessageBatch"})
        /\ lastCall'.commands # <<>>)
          => /\ MapHas(consumers, lastCall'.name)
             /\ \A c \in 1..Len(lastCall'.commands) :
                   /\ lastCall'.commands[c].client = MapGet(consumers, lastCall'.name).instance.sqs
                   /\ lastCall'.commands[c].input.QueueUrl
                         = MapGet(consumers, lastCall'.name).instance.queueUrl
                   /\ MapHas(producers, lastCall'.name) =>
                         /\ lastCall'.commands[c].client # MapGet(producers, lastCall'.name).sqs
                         /\ lastCall'.commands[c].input.QueueUrl
                               # MapGet(producers, lastCall'.name).queueUrl]_vars

\* deleteMessage went to the consumer's client and URL for a name that is a producer as well
DeleteSentToConsumerOfSharedName ==
    /\ lastCall.op = "deleteMessage"
    /\ lastCall.outcome = "returned"
    /\ MapHas(consumers, lastCall.name)
    /\ MapHas(producers, lastCall.name)
    /\ lastCall.commands[1].client = MapGet(consumers, lastCall.name).instance.sqs
    /\ lastCall.commands[1].input.QueueUrl = MapGet(consumers, lastCall.name).instance.queueUrl
    /\ lastCall.commands[1].client # MapGet(producers, lastCall.name).sqs

(***************************************************************************)
(* C18.  When onModuleInit ends with the duplicate-consumer or the         *)
(* duplicate-producer error, no consumer has been started, those created   *)
(* and stored before the error included; and none is started later.        *)
(***************************************************************************)
FailedInitStartsNoConsumer ==
    (pc = "initFailed" \/ Positions({"throw"}) # {}) =>
        /\ Positions({"start"}) = {}
        /\ \A i \in 1..Len(consumers) : consumers[i].value.instance.starts = 0

\* onModuleInit failed on a duplicate producer after two consumers had been stored
FailedOnProducerWithConsumersStored ==
    /\ pc = "initFailed"
    /\ error = ProducerExistsError(events[Len(events)].name)
    /\ Len(consumers) = 2
    /\ \A i \in 1..Len(consumers) : consumers[i].value.instance.starts = 0

(***************************************************************************)
(* C19.  Every listener attached to a consumer is the function of an       *)
(* event-handler binding of the consumer's queue, under the binding's      *)
(* event name, bound to the owner instance of that same binding, whether   *)
(* or not the queue's message handler has the same owner.                  *)
(***************************************************************************)
ListenersBoundToTheirOwnOwner ==
    \A i \in 1..Len(consumers) :
        LET listeners == consumers[i].value.instance.listeners
        IN  \A l \in 1..Len(listeners) :
                \E j \in EventBindingsOf(consumers[i].key) :
                    /\ ListenerOf(listeners[l], discovered.eventHandlers[j])
                    /\ listeners[l].callback.this = discovered.eventHandlers[j].instance

\* The callback made of a binding: its function bound to its owner instance
CallbackOf(binding) == [type |-> "bound", fn |-> binding.handler, this |-> binding.instance]

\* The callbacks that have run for the consumer of this name
InvocationsOf(name) == {p \in Positions({"invoke"}) : events[p].name = name}

(***************************************************************************)
(* C20.  When the discovery holds several message-handler bindings of one  *)
(* queue name, the consumer of that name is wired to the first of them in  *)
(* discovery order: its callback is that binding's function bound to that  *)
(* binding's owner, of the kind that binding's batch flag selects, and     *)
(* every delivery runs this callback, so no later binding of the name is   *)
(* ever invoked.                                                           *)
(***************************************************************************)
WiredToFirstBindingOfTheName ==
    \A i \in 1..Len(consumers) :
        LET name == consumers[i].key
            instance == consumers[i].value.instance
            first == FirstBindingOf(name)
            kind == IF first.meta.batch = TRUE THEN "handleMessageBatch" ELSE "handleMessage"
        IN  /\ instance[kind] = CallbackOf(first)
            /\ \A k \in {"handleMessage", "handleMessageBatch"} \ {kind} : instance[k] = Undefined
            /\ \A p \in InvocationsOf(name) :
                  /\ events[p].kind = kind
                  /\ events[p].callback = CallbackOf(first)
                  /\ \A j \in BindingsOf(name) :
                        discovered.messageHandlers[j] # first
                           => events[p].callback.fn # discovered.messageHandlers[j].handler

\* A message was delivered to a consumer whose name has two bindings that differ in every part
DeliveredWithTwoBindingsOfTheName ==
    /\ pc = "initialized"
    /\ \E p \in Positions({"invoke"}) :
          \E j, k \in BindingsOf(events[p].name) :
              /\ j < k
              /\ discovered.messageHandlers[j].handler # discovered.messageHandlers[k].handler
              /\ discovered.messageHandlers[j].instance # discovered.messageHandlers[k].instance
              /\ discovered.messageHandlers[j].meta.batch # discovered.messageHandlers[k].meta.batch
              /\ events[p].callback = CallbackOf(discovered.messageHandlers[j])

====
